---- MODULE Spec2Model ----
(***************************************************************************)
(* Model of MyLearning/check_gemini_models.py: a one-shot script that      *)
(* probes a fixed list of Gemini model names with one prompt each,         *)
(* classifies every probe and prints a summary.                            *)
(*                                                                         *)
(* The initial state is the state after load_dotenv() (line 26) returned.  *)
(* stdout holds the lines printed from line 99 on and the diagnostics of   *)
(* the top-level handlers; the per-probe progress line is the pair         *)
(* (model_name, tag), the calls made to the client library are in log.     *)
(***************************************************************************)
EXTENDS Integers, Sequences, FiniteSets, TLC

(* ------------------------------------------------------------------ *)
(* Program literals                                                    *)
(* ------------------------------------------------------------------ *)

\* lines 36-45: the list literal first bound to working_models
CandidateLiterals ==
    << "gemini-3-pro-preview", "gemini-2.5-pro", "gemini-2.5-flash",
       "gemini-2.5-flash-lite", "gemini-2.0-flash", "gemini-2.0-flash-lite",
       "models/gemini-2.5-pro", "models/gemini-2.5-flash" >>

\* lines 48-51
RestrictedLiterals == << "gemini-3-pro-preview", "gemini-3-pro-image-preview" >>

\* lines 54-60
DeprecatedLiterals ==
    << "gemini-pro", "gemini-1.5-pro", "gemini-1.5-flash",
       "gemini-2.5-pro-latest", "gemini-2.5-flash-latest" >>

\* Python's None, as returned by os.getenv for an unset variable
None == "<None>"

\* The values os.getenv("GOOGLE_API_KEY") can return: unset, empty, a key
ApiKeyValues == { None, "", "AIzaSyEXAMPLEKEY" }

\* Python truthiness of a str-or-None value (line 65: `not api_key`)
Truthy(v) == v # None /\ v # ""

\* Python truthiness of a list (line 104: `if working_models`)
ListTruthy(l) == Len(l) > 0

(* ------------------------------------------------------------------ *)
(* Strings: a failure text is a sequence of characters                 *)
(* ------------------------------------------------------------------ *)

\* Failure texts str(e) the client library is taken to raise
Messages ==
    { "404 model not found", "403 Forbidden: permission denied",
      "Model Not Found", "PERMISSION DENIED", "quota exceeded",
      "404 permission denied", "Not Found: permission denied" }

\* The characters of each failure text
Text ==
    "404 model not found" :> <<"4","0","4"," ","m","o","d","e","l"," ","n","o","t"," ","f","o","u","n","d">> @@
    "403 Forbidden: permission denied" :> <<"4","0","3"," ","F","o","r","b","i","d","d","e","n",":"," ","p","e","r","m","i","s","s","i","o","n"," ","d","e","n","i","e","d">> @@
    "Model Not Found" :> <<"M","o","d","e","l"," ","N","o","t"," ","F","o","u","n","d">> @@
    "PERMISSION DENIED" :> <<"P","E","R","M","I","S","S","I","O","N"," ","D","E","N","I","E","D">> @@
    "quota exceeded" :> <<"q","u","o","t","a"," ","e","x","c","e","e","d","e","d">> @@
    "404 permission denied" :> <<"4","0","4"," ","p","e","r","m","i","s","s","i","o","n"," ","d","e","n","i","e","d">> @@
    "Not Found: permission denied" :> <<"N","o","t"," ","F","o","u","n","d",":"," ","p","e","r","m","i","s","s","i","o","n"," ","d","e","n","i","e","d">>

\* str.lower() on one character
UpperToLower ==
    "A" :> "a" @@ "B" :> "b" @@ "C" :> "c" @@ "D" :> "d" @@ "E" :> "e" @@
    "F" :> "f" @@ "G" :> "g" @@ "H" :> "h" @@ "I" :> "i" @@ "J" :> "j" @@
    "K" :> "k" @@ "L" :> "l" @@ "M" :> "m" @@ "N" :> "n" @@ "O" :> "o" @@
    "P" :> "p" @@ "Q" :> "q" @@ "R" :> "r" @@ "S" :> "s" @@ "T" :> "t" @@
    "U" :> "u" @@ "V" :> "v" @@ "W" :> "w" @@ "X" :> "x" @@ "Y" :> "y" @@
    "Z" :> "z"

\* str.lower() (line 94)
Lower(s) ==
    [ i \in 1..Len(s) |->
        IF s[i] \in DOMAIN UpperToLower THEN UpperToLower[s[i]] ELSE s[i] ]

\* Python's `sub in s` on strings (lines 92, 94)
Contains(sub, s) ==
    \E i \in 0..(Len(s) - Len(sub)) : SubSeq(s, i + 1, i + Len(sub)) = sub

\* the four keyword literals of lines 92 and 94
K404 == <<"4","0","4">>
KNotFound == <<"n","o","t"," ","f","o","u","n","d">>
K403 == <<"4","0","3">>
KPermission == <<"p","e","r","m","i","s","s","i","o","n">>

\* line 92: "404" in error_msg or "not found" in error_msg
MatchesNotFound(s) == Contains(K404, s) \/ Contains(KNotFound, s)

\* line 94: "403" in error_msg or "permission" in error_msg.lower()
MatchesNoPermission(s) == Contains(K403, s) \/ Contains(KPermission, Lower(s))

\* lines 92-97: the branch of the except block that prints
ClassifyError(msg) ==
    IF MatchesNotFound(Text[msg]) THEN "NotFound"
    ELSE IF MatchesNoPermission(Text[msg]) THEN "NoPermission"
    ELSE "OtherError"

(* ------------------------------------------------------------------ *)
(* Exceptions and the top-level handlers                               *)
(* ------------------------------------------------------------------ *)

\* a handler that catches everything, as `except BaseException` would
IsExceptionBare(cls) == TRUE

\* a top level without the `except Exception` clause
IsExceptionNarrow(cls) == cls = "ImportError"

\* Subclasses of Exception: what `except Exception` (line 130) catches.
\* SystemExit, raised by exit(1), derives from BaseException only.
IsException(cls) == cls \in { "Exception", "ImportError", "IndexError" }

\* One line of standard output
Line(kind, arg) == [ kind |-> kind, arg |-> arg, n |-> 0 ]

\* line 100: the count line
CountLine(k) == [ kind |-> "count", arg |-> "", n |-> k ]

\* lines 127-131 and interpreter exit: what an exception raised inside the
\* outer try block leaves behind (printed lines, exit status)
TopLevel(cls) ==
    IF cls = "ImportError"
    THEN [ lines |-> << Line("import_error", "") >>, status |-> 0 ]
    ELSE IF IsException(cls)
    THEN [ lines |-> << Line("unexpected_error", cls) >>, status |-> 0 ]
    ELSE [ lines |-> << >>, status |-> 1 ]

(* ------------------------------------------------------------------ *)
(* Bounds                                                              *)
(* ------------------------------------------------------------------ *)

\* cap on the position of the list iterator of line 74
MaxIterations == 9

(* ------------------------------------------------------------------ *)
(* State                                                               *)
(* ------------------------------------------------------------------ *)

VARIABLES
    pc,                 \* position of the single thread of control
    api_key,            \* the value os.getenv returns (line 64)
    heap,               \* list objects, indexed by reference
    working_models,     \* reference held by the name working_models
    restricted_models,  \* reference held by restricted_models
    deprecated_models,  \* reference held by deprecated_models
    model_names_to_try, \* reference held by model_names_to_try
    idx,                \* position of the iterator of the for loop
    model_name,         \* loop variable
    llm,                \* model the last constructed client is bound to
    response,           \* model that produced the last reply
    error_msg,          \* last str(e)
    tag,                \* classification printed for the last probe
    stdout,             \* lines printed from line 99 on, and diagnostics
    log,                \* calls made to the client library and their fate
    exit_status         \* process exit status

vars == << pc, api_key, heap, working_models, restricted_models,
           deprecated_models, model_names_to_try, idx, model_name, llm,
           response, error_msg, tag, stdout, log, exit_status >>

names == << working_models, restricted_models, deprecated_models,
            model_names_to_try >>

loopvars == << idx, model_name, llm, response, error_msg, tag >>

\* One entry of log
Event(kind, m) == [ kind |-> kind, model |-> m ]

\* the list a name refers to
Deref(ref) == heap[ref]

Init ==
    /\ pc = "import"
    /\ api_key \in ApiKeyValues
    /\ heap = << >>
    /\ working_models = 0
    /\ restricted_models = 0
    /\ deprecated_models = 0
    /\ model_names_to_try = 0
    /\ idx = 0
    /\ model_name = ""
    /\ llm = ""
    /\ response = ""
    /\ error_msg = ""
    /\ tag = ""
    /\ stdout = << >>
    /\ log = << >>
    /\ exit_status = 0

(* ------------------------------------------------------------------ *)
(* Lines 29-72: import, list literals, credential check                *)
(* ------------------------------------------------------------------ *)

\* line 30 succeeds, line 32 prints the banner
ImportOK ==
    /\ pc = "import"
    /\ pc' = "bind"
    /\ UNCHANGED << api_key, heap, names, loopvars, stdout, log, exit_status >>

\* line 30 raises ImportError, handled at lines 127-128
ImportFail ==
    /\ pc = "import"
    /\ pc' = "done"
    /\ stdout' = stdout \o TopLevel("ImportError").lines
    /\ exit_status' = TopLevel("ImportError").status
    /\ UNCHANGED << api_key, heap, names, loopvars, log >>

\* lines 36-62: three list objects are created; model_names_to_try is made
\* an alias of the list working_models refers to
BindLists ==
    /\ pc = "bind"
    /\ heap' = << CandidateLiterals, RestrictedLiterals, DeprecatedLiterals >>
    /\ working_models' = 1
    /\ restricted_models' = 2
    /\ deprecated_models' = 3
    /\ model_names_to_try' = working_models'
    /\ pc' = "getenv"
    /\ UNCHANGED << api_key, loopvars, stdout, log, exit_status >>

\* lines 64-67: the credential is falsy; exit(1) raises SystemExit
KeyMissing ==
    /\ pc = "getenv"
    /\ ~ Truthy(api_key)
    /\ stdout' = stdout \o << Line("no_key_error", "") >>
                        \o TopLevel("SystemExit").lines
    /\ exit_status' = TopLevel("SystemExit").status
    /\ pc' = "done"
    /\ UNCHANGED << api_key, heap, names, loopvars, log >>

\* lines 64-70: the credential is truthy
KeyPresent ==
    /\ pc = "getenv"
    /\ Truthy(api_key)
    /\ pc' = "rebind"
    /\ UNCHANGED << api_key, heap, names, loopvars, stdout, log, exit_status >>

\* line 72 left out: working_models keeps referring to the candidate list
StaleRef(h, cur) == cur

\* line 72: the reference working_models holds after `working_models = []`
FreshRef(h, cur) == Len(h) + 1

\* line 72: working_models = []
Rebind ==
    /\ pc = "rebind"
    /\ heap' = Append(heap, << >>)
    /\ working_models' = FreshRef(heap, working_models)
    /\ pc' = "for"
    /\ UNCHANGED << api_key, restricted_models, deprecated_models,
                    model_names_to_try, loopvars, stdout, log, exit_status >>

(* ------------------------------------------------------------------ *)
(* Lines 74-97: the probe loop                                         *)
(* ------------------------------------------------------------------ *)

\* line 74: the list iterator yields the next item; line 76 prints it
ForNext ==
    /\ pc = "for"
    /\ idx < Len(Deref(model_names_to_try))
    /\ idx < MaxIterations
    /\ model_name' = Deref(model_names_to_try)[idx + 1]
    /\ idx' = idx + 1
    /\ pc' = "construct"
    /\ UNCHANGED << api_key, heap, names, llm, response, error_msg, tag,
                    stdout, log, exit_status >>

\* line 74: the list iterator is exhausted
ForEnd ==
    /\ pc = "for"
    /\ idx >= Len(Deref(model_names_to_try))
    /\ pc' = "summary"
    /\ UNCHANGED << api_key, heap, names, loopvars, stdout, log, exit_status >>

\* an except block that leaves the loop
AfterProbeFailureBreak == "summary"

\* where control goes after the except block of lines 90-97
AfterProbeFailure == "for"

\* lines 90-97: the exception is caught, its text classified and the result
\* printed; calls are the calls to the client library made by the failing step
ProbeFailed(calls, msg) ==
    /\ error_msg' = msg
    /\ tag' = ClassifyError(msg)
    /\ log' = log \o calls \o << Event("raise", model_name) >>
    /\ pc' = AfterProbeFailure
    /\ UNCHANGED << api_key, heap, names, idx, model_name, llm, response,
                    stdout, exit_status >>

\* lines 79-83: the client is constructed
ConstructOK ==
    /\ pc = "construct"
    /\ llm' = model_name
    /\ log' = Append(log, Event("construct", model_name))
    /\ pc' = "invoke"
    /\ UNCHANGED << api_key, heap, names, idx, model_name, response,
                    error_msg, tag, stdout, exit_status >>

\* lines 79-83 raise
ConstructFail ==
    /\ pc = "construct"
    /\ \E msg \in Messages :
          ProbeFailed(<< Event("construct", model_name) >>, msg)

\* line 86: the prompt is sent and a reply comes back
InvokeOK ==
    /\ pc = "invoke"
    /\ response' = llm
    /\ log' = Append(log, Event("invoke", model_name))
    /\ pc' = "read"
    /\ UNCHANGED << api_key, heap, names, idx, model_name, llm, error_msg,
                    tag, stdout, exit_status >>

\* line 86 raises after the prompt was sent
InvokeFail ==
    /\ pc = "invoke"
    /\ \E msg \in Messages :
          ProbeFailed(<< Event("invoke", model_name) >>, msg)

\* list.insert(0, x) in place of list.append(x)
ListInsertFront(l, x) == << x >> \o l

\* line 88: list.append
ListAppend(l, x) == Append(l, x)

\* lines 87-88: the reply is read and printed, the name is appended
ReadOK ==
    /\ pc = "read"
    /\ tag' = "Success"
    /\ heap' = [ heap EXCEPT ![working_models] = ListAppend(@, model_name) ]
    /\ log' = Append(log, Event("ok", model_name))
    /\ pc' = "for"
    /\ UNCHANGED << api_key, names, idx, model_name, llm, response,
                    error_msg, stdout, exit_status >>

\* line 87 raises while reading response.content
ReadFail ==
    /\ pc = "read"
    /\ \E msg \in Messages : ProbeFailed(<< >>, msg)

(* ------------------------------------------------------------------ *)
(* Lines 99-125: the reporter                                          *)
(* ------------------------------------------------------------------ *)

\* lines 99-102
SummaryLines(w) ==
    << Line("summary_header", ""), CountLine(Len(w)) >>
    \o [ i \in 1..Len(w) |-> Line("working", w[i]) ]

\* lines 99-102
Summary ==
    /\ pc = "summary"
    /\ stdout' = stdout \o SummaryLines(Deref(working_models))
    /\ pc' = "branch"
    /\ UNCHANGED << api_key, heap, names, loopvars, log, exit_status >>

\* lines 105-113: the prints of the recommendation block, in order, with the
\* position of working_models each one reads (-1: none)
RecommendSteps ==
    << [ kind |-> "recommended_header", at |-> -1 ],
       [ kind |-> "primary",            at |-> 0 ],
       [ kind |-> "secondary",          at |-> 1 ],
       [ kind |-> "fastest",            at |-> 2 ],
       [ kind |-> "config_header",      at |-> -1 ],
       [ kind |-> "config_intro",       at |-> -1 ],
       [ kind |-> "deep",               at |-> 0 ],
       [ kind |-> "quick",              at |-> 1 ] >>

\* Python's l[k] for k >= 0 raises IndexError exactly when k >= len(l)
IndexRaises(l, k) == k >= Len(l)

\* the first print of the recommendation block that raises, 0 when none does
FirstRaise(w) ==
    LET bad == { i \in 1..Len(RecommendSteps) :
                    IndexRaises(w, RecommendSteps[i].at) }
    IN  IF bad = {} THEN 0
        ELSE CHOOSE i \in bad : \A j \in bad : i <= j

\* the first k lines of the recommendation block
RecommendLines(w, k) ==
    [ i \in 1..k |->
        Line(RecommendSteps[i].kind,
             IF RecommendSteps[i].at < 0 THEN ""
             ELSE w[RecommendSteps[i].at + 1]) ]

\* lines 104-113 complete
RecommendOK ==
    /\ pc = "branch"
    /\ ListTruthy(Deref(working_models))
    /\ FirstRaise(Deref(working_models)) = 0
    /\ stdout' = stdout \o RecommendLines(Deref(working_models),
                                          Len(RecommendSteps))
    /\ pc' = "static"
    /\ UNCHANGED << api_key, heap, names, loopvars, log, exit_status >>

\* lines 104-113 raise IndexError, which line 130 catches
RecommendRaise ==
    /\ pc = "branch"
    /\ ListTruthy(Deref(working_models))
    /\ FirstRaise(Deref(working_models)) > 0
    /\ stdout' = stdout
                 \o RecommendLines(Deref(working_models),
                                   FirstRaise(Deref(working_models)) - 1)
                 \o TopLevel("IndexError").lines
    /\ exit_status' = TopLevel("IndexError").status
    /\ pc' = "done"
    /\ UNCHANGED << api_key, heap, names, loopvars, log >>

\* lines 115-123
StaticLines(r, d) ==
    << Line("restricted_header", ""), Line("restricted_intro", "") >>
    \o [ i \in 1..Len(r) |-> Line("restricted", r[i]) ]
    \o << Line("deprecated_header", ""), Line("deprecated_intro", "") >>
    \o [ i \in 1..Len(d) |-> Line("deprecated", d[i]) ]

\* lines 115-123
StaticLists ==
    /\ pc = "static"
    /\ stdout' = stdout \o StaticLines(Deref(restricted_models),
                                       Deref(deprecated_models))
    /\ pc' = "done"
    /\ UNCHANGED << api_key, heap, names, loopvars, log, exit_status >>

\* lines 124-125
NoWorking ==
    /\ pc = "branch"
    /\ ~ ListTruthy(Deref(working_models))
    /\ stdout' = Append(stdout, Line("no_working", ""))
    /\ pc' = "done"
    /\ UNCHANGED << api_key, heap, names, loopvars, log, exit_status >>

(* ------------------------------------------------------------------ *)
(* Specifications                                                      *)
(* ------------------------------------------------------------------ *)

Next ==
    \/ ImportOK
    \/ ImportFail
    \/ BindLists
    \/ KeyMissing
    \/ KeyPresent
    \/ Rebind
    \/ ForNext
    \/ ForEnd
    \/ ConstructOK
    \/ ConstructFail
    \/ InvokeOK
    \/ InvokeFail
    \/ ReadOK
    \/ ReadFail
    \/ Summary
    \/ RecommendOK
    \/ RecommendRaise
    \/ StaticLists
    \/ NoWorking

Spec == Init /\ [][Next]_vars

\* The thread of control keeps running, and every call to the client
\* library returns or raises: a step that is possible is eventually taken.
FairSpec == Init /\ [][Next]_vars /\ WF_vars(Next)

(* ------------------------------------------------------------------ *)
(* Vocabulary of the properties                                        *)
(* ------------------------------------------------------------------ *)

Done == pc = "done"

\* the lines of stdout of one kind, as the sequence of their arguments
Printed(kind) ==
    LET sel == SelectSeq(stdout, LAMBDA l : l.kind = kind)
    IN  [ i \in 1..Len(sel) |-> sel[i].arg ]

HasLine(kind) == \E i \in 1..Len(stdout) : stdout[i].kind = kind

\* the models named by the log entries of one kind, in log order
Logged(kind) ==
    LET sel == SelectSeq(log, LAMBDA e : e.kind = kind)
    IN  [ i \in 1..Len(sel) |-> sel[i].model ]

\* number of prompts sent for model m
Prompts(m) == Len(SelectSeq(log, LAMBDA e : e.kind = "invoke" /\ e.model = m))

\* the probe of model m ran to the end of the try block
Succeeded(m) == \E i \in 1..Len(log) : log[i] = Event("ok", m)

\* position of a name in the candidate literals, 0 when it is not one
CandidateIndex(m) ==
    IF \E i \in 1..Len(CandidateLiterals) : CandidateLiterals[i] = m
    THEN CHOOSE i \in 1..Len(CandidateLiterals) : CandidateLiterals[i] = m
    ELSE 0

\* no client was constructed, no prompt sent, no identifier classified
NoProbes == log = << >> /\ idx = 0 /\ llm = "" /\ tag = ""

ImportFailed == HasLine("import_error")

(* ------------------------------------------------------------------ *)
(* C1                                                                  *)
(* ------------------------------------------------------------------ *)

\* C1 as stated: when GOOGLE_API_KEY is unset or empty the program ends with
\* a non-zero exit status and has performed no probe at all.
C1_AsStated ==
    (Done /\ ~ Truthy(api_key)) => (exit_status # 0 /\ NoProbes)

\* C1, amended: when GOOGLE_API_KEY is unset or empty no probe is ever
\* performed, and the program ends with a non-zero exit status unless the
\* import of the client library failed first, in which case it ends with
\* status 0; SystemExit is not swallowed by the top-level handlers.
C1_MissingKeyExits ==
    ~ Truthy(api_key) =>
        /\ NoProbes
        /\ Done => (exit_status # 0 <=> ~ ImportFailed)
        /\ Done => ~ HasLine("unexpected_error")

C1_Witness ==
    Done /\ api_key = "" /\ exit_status = 1 /\ HasLine("no_key_error")

(* ------------------------------------------------------------------ *)
(* C7                                                                  *)
(* ------------------------------------------------------------------ *)

\* C7: the missing credential is the only way to a non-zero exit status:
\* with the credential present the program ends with status 0 whatever the
\* probes did, and when the import of the client library fails it ends
\* with status 0 without having probed.
C7_OnlyMissingKeyFails ==
    Done =>
        /\ exit_status \in { 0, 1 }
        /\ exit_status # 0 => ~ Truthy(api_key)
        /\ Truthy(api_key) => exit_status = 0
        /\ ImportFailed => (exit_status = 0 /\ NoProbes)

C7_Witness ==
    /\ Done
    /\ Truthy(api_key)
    /\ HasLine("unexpected_error")
    /\ Len(Deref(working_models)) = 1
    /\ exit_status = 0

(* ------------------------------------------------------------------ *)
(* C5                                                                  *)
(* ------------------------------------------------------------------ *)

\* C5: once the summary is printed, the successful identifiers it lists (and
\* the list working_models holds) are exactly the candidates whose probe
\* succeeded, each once, in candidate order; the count line gives their
\* number.
C5_WorkingIsSuccessSubsequence ==
    HasLine("summary_header") =>
        /\ Printed("working") = SelectSeq(CandidateLiterals, Succeeded)
        /\ Deref(working_models) = Printed("working")
        /\ \A i \in 1..Len(stdout) :
              stdout[i].kind = "count" => stdout[i].n = Len(Printed("working"))

C5_Witness ==
    /\ Done
    /\ HasLine("summary_header")
    /\ Printed("working") = << CandidateLiterals[2], CandidateLiterals[5],
                               CandidateLiterals[8] >>

(* ------------------------------------------------------------------ *)
(* C6                                                                  *)
(* ------------------------------------------------------------------ *)

\* the probes made so far are those of the first candidates, in list order,
\* each once
ProbedInOrder ==
    /\ Len(Logged("construct")) <= Len(CandidateLiterals)
    /\ Logged("construct") =
           SubSeq(CandidateLiterals, 1, Len(Logged("construct")))

\* a probe starts only when the previous one has returned or raised
Sequential ==
    \A i \in 2..Len(log) :
        log[i].kind = "construct" => log[i - 1].kind \in { "ok", "raise" }

\* at most one prompt per identifier, sent after its client was constructed,
\* and none when the construction raised
OnePrompt ==
    /\ \A i \in 1..Len(CandidateLiterals) : Prompts(CandidateLiterals[i]) <= 1
    /\ \A i \in 1..Len(log) :
          log[i].kind = "invoke" =>
              i > 1 /\ log[i - 1] = Event("construct", log[i].model)
    /\ \A i \in 1..(Len(log) - 1) :
          (log[i].kind = "construct" /\ log[i + 1].kind = "raise")
              => Prompts(log[i].model) = 0

\* C6 as stated: with the credential present every candidate is probed
\* exactly once, in list order, one after the other, with at most one prompt
\* each and none when the construction fails.
C6_AsStated ==
    /\ ProbedInOrder /\ Sequential /\ OnePrompt
    /\ (Done /\ Truthy(api_key)) => Logged("construct") = CandidateLiterals

\* C6, amended: the same, for the runs in which the credential is present
\* and the import of the client library succeeded (when it fails no
\* identifier is probed).
C6_EveryCandidateProbedOnce ==
    /\ ProbedInOrder /\ Sequential /\ OnePrompt
    /\ (Done /\ Truthy(api_key) /\ ~ ImportFailed)
           => Logged("construct") = CandidateLiterals
    /\ ImportFailed => NoProbes

C6_Witness ==
    /\ Done
    /\ Logged("construct") = CandidateLiterals
    /\ Prompts(CandidateLiterals[1]) = 0
    /\ Prompts(CandidateLiterals[2]) = 1
    /\ ~ Succeeded(CandidateLiterals[2])
    /\ Succeeded(CandidateLiterals[3])

(* ------------------------------------------------------------------ *)
(* C9                                                                  *)
(* ------------------------------------------------------------------ *)

\* the list the loop iterates over is the list of candidate literals
CandidatesIntact ==
    model_names_to_try # 0 => Deref(model_names_to_try) = CandidateLiterals

\* when the loop is left it has run 8 times
EightIterations ==
    pc = "summary" => (idx = 8 /\ Len(Logged("construct")) = 8)

\* C9: the program terminates; the loop runs exactly 8 times; rebinding
\* working_models and appending to it never changes the list that
\* model_names_to_try refers to.
C9_Terminates == <>Done /\ [](CandidatesIntact /\ EightIterations)

C9_Witness ==
    /\ Done
    /\ idx = 8
    /\ working_models # model_names_to_try
    /\ Len(Deref(working_models)) = 8
    /\ Deref(model_names_to_try) = CandidateLiterals

(* ------------------------------------------------------------------ *)
(* C2, C3: the classifier                                              *)
(* ------------------------------------------------------------------ *)

Tags == { "Success", "NotFound", "NoPermission", "OtherError" }

\* substring test that ignores letter case
ContainsAnyCase(sub, s) == Contains(Lower(sub), Lower(s))

\* the classification of a failure text that section 4.3 of the
\* specification describes: every keyword matched without regard to case
TagOfFailure(msg) ==
    IF ContainsAnyCase(K404, Text[msg]) \/ ContainsAnyCase(KNotFound, Text[msg])
    THEN "NotFound"
    ELSE IF \/ ContainsAnyCase(K403, Text[msg])
            \/ ContainsAnyCase(KPermission, Text[msg])
    THEN "NoPermission"
    ELSE "OtherError"

\* a probe has just been classified
ProbeClassified == pc = "for" /\ idx > 0

\* the probe just classified ended in the except block
LastProbeFailed == log[Len(log)].kind = "raise"

\* C2: every probe gets exactly one of the four tags; a failure whose text
\* contains "404" or "not found" is NotFound, otherwise one whose text
\* contains "403" or "permission" is NoPermission, otherwise it is
\* OtherError; Success is given exactly when nothing raised.
C2_AsStated ==
    ProbeClassified =>
        /\ tag \in Tags
        /\ tag = "Success" <=> ~ LastProbeFailed
        /\ LastProbeFailed => tag = TagOfFailure(error_msg)

\* C3: the keywords are matched in any letter case: a failure text with
\* "not found" in any case is NotFound, and one with "permission" in any
\* case and no NotFound keyword is NoPermission.
C3_AsStated ==
    (ProbeClassified /\ LastProbeFailed) =>
        /\ ContainsAnyCase(KNotFound, Text[error_msg]) => tag = "NotFound"
        /\ ( /\ ContainsAnyCase(KPermission, Text[error_msg])
             /\ ~ ContainsAnyCase(KNotFound, Text[error_msg])
             /\ ~ ContainsAnyCase(K404, Text[error_msg]) )
               => tag = "NoPermission"

(* ------------------------------------------------------------------ *)
(* C4, C8: the reporter                                                *)
(* ------------------------------------------------------------------ *)

\* C4: with one or two successful identifiers the recommendation step
\* completes without raising.
C4_AsStated ==
    (Done /\ HasLine("summary_header")
          /\ Len(Deref(working_models)) \in { 1, 2 })
        => ~ HasLine("unexpected_error")

\* C8: after the probes, with at least one success the report is the
\* summary, the recommendation lines and then both static lists in full;
\* with no success it is the summary and the single failure notice; no
\* line of it is printed before the last probe has completed.
C8_AsStated ==
    /\ (stdout # << >> /\ Truthy(api_key) /\ ~ ImportFailed)
           => /\ Len(Logged("construct")) = Len(CandidateLiterals)
              /\ pc \in { "branch", "static", "done" }
    /\ (Done /\ HasLine("summary_header")) =>
           IF Len(Deref(working_models)) >= 1
           THEN LET static == StaticLines(RestrictedLiterals,
                                          DeprecatedLiterals)
                    n == Len(stdout) - Len(static)
                IN  /\ ~ HasLine("no_working")
                    /\ n > 0
                    /\ SubSeq(stdout, n + 1, Len(stdout)) = static
                    /\ \E i \in 1..n : stdout[i].kind = "recommended_header"
                    /\ \A i \in 1..n :
                          stdout[i].kind \notin { "restricted", "deprecated" }
           ELSE /\ Len(Printed("no_working")) = 1
                /\ ~ HasLine("recommended_header")
                /\ ~ HasLine("restricted_header")
                /\ ~ HasLine("deprecated_header")

====
